---- MODULE Spec2Model ----
(***************************************************************************)
(* zk-codehash-timeline (src/app.py): main() validates its arguments,      *)
(* scan_codehash_timeline() samples the code hash of one address at the    *)
(* heights from_block, from_block+step, ... <= to_block, and               *)
(* summarize_changes() reduces the timeline to its change points.  The     *)
(* verdict `changed` selects the exit code.                                *)
(*                                                                         *)
(* Time is counted in tenths of a second.  The clock advances only while   *)
(* a get_code call is outstanding (the fetch latency).                     *)
(***************************************************************************)
EXTENDS Integers, Sequences, FiniteSets, TLC

VARIABLES
    pc,             \* "validate" | "scan" | "exited": position in main()
    rpc_ok,         \* args.rpc.startswith(("http://", "https://"))
    address_ok,     \* Web3.is_address(args.address)
    connected,      \* w3.is_connected()
    from_block,     \* args.from_block
    to_block,       \* args.to_block
    step,           \* args.step
    now,            \* time.time()
    last_progress,  \* scan_codehash_timeline: last_progress
    progress_lines, \* number of "Checking block" lines printed
    idx,            \* scan_codehash_timeline: idx of the last iteration run
    results,        \* scan_codehash_timeline: results
    warnings,       \* blocks of the "Block b: get_code failed" lines printed
    rpc_calls,      \* number of w3.eth.get_code invocations
    chain,          \* bytecode truly deployed at each sampled height
    fetch_failed,   \* whether get_code raised at each sampled height
    cancel_at,      \* -1, or the number of heights sampled when the caller
                    \* raised a cancellation signal
    scan_returned,  \* scan_codehash_timeline returned to main()
    timeline,       \* main: timeline
    changes,        \* main: changes
    unique_hashes,  \* main: unique_hashes (as a set; sorted() only orders it)
    changed,        \* main: changed
    report,         \* the "Timeline summary" lines printed
    exit_code,      \* -1 while running, else the status given to sys.exit
    error           \* which validation failed, "none" otherwise

vars == <<pc, rpc_ok, address_ok, connected, from_block, to_block, step, now,
          last_progress, progress_lines, idx, results, warnings, rpc_calls,
          chain, fetch_failed, cancel_at, scan_returned, timeline, changes,
          unique_hashes, changed, report, exit_code, error>>

(* Bounds of the model. *)
MaxBlock == 3
MaxStep == 2
MaxProgressBlock == 26
MaxLatency == 2

(* Program constants. *)
show_progress_every == 25
ProgressInterval == 2

None == "None"
Sentinel == "object()"

(* Bytecode is a byte string; the empty one means "no code". *)
EmptyCode == << >>
Bytecodes == {EmptyCode, <<1>>, <<2>>}

(* Web3.keccak(code).hex(): a collision-free digest of the byte string. *)
Keccak(code) ==
    CASE code = EmptyCode -> "c5d24601"
      [] code = <<1>> -> "5fe7f977"
      [] code = <<2>> -> "f2ee15ea"

(* codehash_at: None for empty code, the digest otherwise; any failure of  *)
(* get_code is re-raised as RuntimeError.                                  *)
codehash_at(code, rpc_fails) ==
    IF rpc_fails THEN [raised |-> TRUE, value |-> None]
    ELSE IF Len(code) = 0 THEN [raised |-> FALSE, value |-> None]
    ELSE [raised |-> FALSE, value |-> Keccak(code)]

(* RangeLen with the length rounded down instead of up. *)
RangeLenFloor(start, stop, stp) ==
    CASE stp > 0 -> IF stop > start THEN (stop - start) \div stp ELSE 0
      [] stp < 0 -> IF start > stop THEN (start - stop) \div (-stp) ELSE 0

(* len(range(start, stop, step)) for step # 0 (step = 0 raises). *)
RangeLen(start, stop, stp) ==
    CASE stp > 0 -> IF stop > start THEN (stop - start + stp - 1) \div stp ELSE 0
      [] stp < 0 -> IF start > stop THEN (start - stop - stp - 1) \div (-stp) ELSE 0

(* range(start, stop, step)[i-1] *)
RangeAt(start, stp, i) == start + (i - 1) * stp

(* The loop of scan_codehash_timeline runs over range(start, end + 1, step). *)
ScanLen == RangeLen(from_block, to_block + 1, step)

(* ShouldNotify with the index counted from 0 (enumerate without start=1). *)
ShouldNotifyFromZero(t, last, i) ==
    (t - last >= ProgressInterval) \/ ((i - 1) % show_progress_every = 0)

(* The progress condition of the loop. *)
ShouldNotify(t, last, i) ==
    (t - last >= ProgressInterval) \/ (i % show_progress_every = 0)

(* DegradedHash as a marker string of its own instead of None. *)
DegradedHashMarker == "fetch-error"

(* The hash recorded for a height whose fetch raised. *)
DegradedHash == None

(* ScanAppend that skips the append for a height whose fetch raised. *)
ScanAppendSkipFailed(res, block, r) ==
    IF r.raised THEN res ELSE Append(res, <<block, r.value>>)

(* try: h = codehash_at(...) except Exception: h = None; results.append *)
ScanAppend(res, block, r) ==
    Append(res, <<block, IF r.raised THEN DegradedHash ELSE r.value>>)

(* summarize_changes: a fold over the timeline with the previous hash. *)
RECURSIVE SummarizeFrom(_, _, _, _)
SummarizeFrom(tl, i, prev, acc) ==
    IF i > Len(tl) THEN acc
    ELSE IF tl[i][2] # prev
         THEN SummarizeFrom(tl, i + 1, tl[i][2], Append(acc, tl[i]))
         ELSE SummarizeFrom(tl, i + 1, prev, acc)

(* summarize_changes that compares with every earlier change point. *)
RECURSIVE SummarizeUnseen(_, _, _)
SummarizeUnseen(tl, i, acc) ==
    IF i > Len(tl) THEN acc
    ELSE IF \E k \in 1..Len(acc) : acc[k][2] = tl[i][2]
         THEN SummarizeUnseen(tl, i + 1, acc)
         ELSE SummarizeUnseen(tl, i + 1, Append(acc, tl[i]))

summarize_changes_unseen(tl) == SummarizeUnseen(tl, 1, << >>)

summarize_changes(tl) == SummarizeFrom(tl, 1, Sentinel, << >>)

(* UniqueHashes without the "is not None" filter. *)
UniqueHashesWithNone(tl) == {tl[i][2] : i \in 1..Len(tl)}

(* {h for _, h in timeline if h is not None} *)
UniqueHashes(tl) == {tl[i][2] : i \in {j \in 1..Len(tl) : tl[j][2] # None}}

Changed(tl) == Cardinality(UniqueHashes(tl)) > 1

(* ExitCode with the status of the validation failures for a change. *)
ExitCodeOne(chg) == IF chg THEN 1 ELSE 0

(* sys.exit(2 if changed else 0) *)
ExitCode(chg) == IF chg THEN 2 ELSE 0

(* One line of the "Timeline summary". *)
ReportLine(entry) ==
    <<entry[1], IF entry[2] = None THEN "(no code)" ELSE entry[2]>>

Report(to_print) == [i \in 1..Len(to_print) |-> ReportLine(to_print[i])]

(* The validations of main(), in the order main() makes them. *)
RangeInvalidOffByOne(from, to) == from > to + 1

RangeInvalid(from, to) == from > to
StepInvalid(stp) == stp <= 0

Idle ==
    /\ pc = "validate"
    /\ now = 0 /\ last_progress = 0 /\ progress_lines = 0 /\ idx = 0
    /\ results = << >> /\ warnings = << >> /\ rpc_calls = 0
    /\ chain = << >> /\ fetch_failed = << >> /\ cancel_at = -1
    /\ scan_returned = FALSE /\ timeline = << >> /\ changes = << >>
    /\ unique_hashes = {} /\ changed = FALSE /\ report = << >>
    /\ exit_code = -1 /\ error = "none"

Init ==
    /\ rpc_ok \in BOOLEAN
    /\ address_ok \in BOOLEAN
    /\ connected \in BOOLEAN
    /\ from_block \in 0..MaxBlock
    /\ to_block \in 0..MaxBlock
    /\ step \in -1..MaxStep
    /\ Idle

Fail(why) ==
    /\ pc' = "exited"
    /\ exit_code' = 1
    /\ error' = why
    /\ UNCHANGED <<rpc_ok, address_ok, connected, from_block, to_block, step,
                   now, last_progress, progress_lines, idx, results, warnings,
                   rpc_calls, chain, fetch_failed, cancel_at, scan_returned,
                   timeline, changes, unique_hashes, changed, report>>

ExitInvalidRpc ==
    /\ pc = "validate"
    /\ ~rpc_ok
    /\ Fail("InvalidRpc")

ExitInvalidRange ==
    /\ pc = "validate"
    /\ rpc_ok
    /\ RangeInvalid(from_block, to_block)
    /\ Fail("InvalidRange")

ExitInvalidStep ==
    /\ pc = "validate"
    /\ rpc_ok
    /\ ~RangeInvalid(from_block, to_block)
    /\ StepInvalid(step)
    /\ Fail("InvalidRange")

ExitInvalidAddress ==
    /\ pc = "validate"
    /\ rpc_ok
    /\ ~RangeInvalid(from_block, to_block)
    /\ ~StepInvalid(step)
    /\ ~address_ok
    /\ Fail("InvalidAddress")

ExitNotConnected ==
    /\ pc = "validate"
    /\ rpc_ok
    /\ ~RangeInvalid(from_block, to_block)
    /\ ~StepInvalid(step)
    /\ address_ok
    /\ ~connected
    /\ Fail("ConnectivityFailure")

(* main() calls scan_codehash_timeline, which sets results and last_progress. *)
StartScan ==
    /\ pc = "validate"
    /\ rpc_ok
    /\ ~RangeInvalid(from_block, to_block)
    /\ ~StepInvalid(step)
    /\ address_ok
    /\ connected
    /\ pc' = "scan"
    /\ results' = << >>
    /\ idx' = 0
    /\ last_progress' = now
    /\ UNCHANGED <<rpc_ok, address_ok, connected, from_block, to_block, step,
                   now, progress_lines, warnings, rpc_calls, chain,
                   fetch_failed, cancel_at, scan_returned, timeline, changes,
                   unique_hashes, changed, report, exit_code, error>>

(* One iteration of the loop: the progress line, the fetch (the chain holds *)
(* `code` at the height, the call fails or not, and takes `latency`), the   *)
(* warning on failure, and the append.                                      *)
ScanIterate(code, rpc_fails, latency) ==
    /\ pc = "scan"
    /\ idx < ScanLen
    /\ LET i == idx + 1
           block == RangeAt(from_block, step, i)
           notify == ShouldNotify(now, last_progress, i)
           r == codehash_at(code, rpc_fails)
       IN /\ idx' = i
          /\ progress_lines' = IF notify THEN progress_lines + 1 ELSE progress_lines
          /\ last_progress' = IF notify THEN now ELSE last_progress
          /\ now' = now + latency
          /\ rpc_calls' = rpc_calls + 1
          /\ chain' = Append(chain, code)
          /\ fetch_failed' = Append(fetch_failed, rpc_fails)
          /\ warnings' = IF r.raised THEN Append(warnings, block) ELSE warnings
          /\ results' = ScanAppend(results, block, r)
    /\ UNCHANGED <<pc, rpc_ok, address_ok, connected, from_block, to_block,
                   step, cancel_at, scan_returned, timeline, changes,
                   unique_hashes, changed, report, exit_code, error>>

(* The range is exhausted: the scan returns, main() summarizes, prints the *)
(* report (the change points only with --only-changes) and exits.          *)
FinishScan(only_changes) ==
    /\ pc = "scan"
    /\ idx >= ScanLen
    /\ scan_returned' = TRUE
    /\ timeline' = results
    /\ changes' = summarize_changes(results)
    /\ unique_hashes' = UniqueHashes(results)
    /\ changed' = Changed(results)
    /\ report' = Report(IF only_changes THEN summarize_changes(results) ELSE results)
    /\ exit_code' = ExitCode(Changed(results))
    /\ pc' = "exited"
    /\ UNCHANGED <<rpc_ok, address_ok, connected, from_block, to_block, step,
                   now, last_progress, progress_lines, idx, results, warnings,
                   rpc_calls, chain, fetch_failed, cancel_at, error>>

(* The caller raises a cancellation signal between two iterations. *)
RequestCancel ==
    /\ pc = "scan"
    /\ idx >= 1
    /\ idx < ScanLen
    /\ cancel_at = -1
    /\ cancel_at' = idx
    /\ UNCHANGED <<pc, rpc_ok, address_ok, connected, from_block, to_block,
                   step, now, last_progress, progress_lines, idx, results,
                   warnings, rpc_calls, chain, fetch_failed, scan_returned,
                   timeline, changes, unique_hashes, changed, report,
                   exit_code, error>>

Next ==
    \/ ExitInvalidRpc
    \/ ExitInvalidRange
    \/ ExitInvalidStep
    \/ ExitInvalidAddress
    \/ ExitNotConnected
    \/ StartScan
    \/ \E code \in Bytecodes, rpc_fails \in BOOLEAN, latency \in {0, ProgressInterval} :
          ScanIterate(code, rpc_fails, latency)
    \/ \E only_changes \in BOOLEAN : FinishScan(only_changes)

Spec == Init /\ [][Next]_vars

(* Long scans of an address with one code version, any fetch latencies. *)
InitProgress ==
    /\ rpc_ok = TRUE
    /\ address_ok = TRUE
    /\ connected = TRUE
    /\ from_block = 0
    /\ to_block \in (MaxProgressBlock - 1)..MaxProgressBlock
    /\ step = 1
    /\ Idle

NextProgress ==
    \/ StartScan
    \/ \E latency \in 0..MaxLatency : ScanIterate(<<1>>, FALSE, latency)
    \/ \E only_changes \in BOOLEAN : FinishScan(only_changes)

SpecProgress == InitProgress /\ [][NextProgress]_vars

(* Scans during which the caller may raise the cancellation signal. *)
NextCancel ==
    \/ Next
    \/ RequestCancel

SpecCancel == Init /\ [][NextCancel]_vars

(***************************************************************************)
(* Properties.                                                             *)
(***************************************************************************)

(* The indices the adjacent-pairwise rule selects. *)
ChangeIndices(tl) == {i \in 1..Len(tl) : i = 1 \/ tl[i][2] # tl[i - 1][2]}

(* The k-th smallest element of a set of integers. *)
KthOf(S, k) == CHOOSE i \in S : Cardinality({j \in S : j <= i}) = k

(* The timeline a scan without any fetch failure yields on the same chain. *)
UndegradedTimeline ==
    [i \in 1..Len(timeline) |->
        <<timeline[i][1], codehash_at(chain[i], FALSE).value>>]

(* C1: the verdict `changed` is true iff the timeline holds two entries    *)
(* whose hashes are both present and differ; absence entries, those of     *)
(* failed fetches included, never count.                                   *)
C1_ChangedIffTwoDigestsDiffer ==
    scan_returned =>
        /\ changed <=>
              \E i, j \in 1..Len(timeline) :
                  /\ timeline[i][2] # None
                  /\ timeline[j][2] # None
                  /\ timeline[i][2] # timeline[j][2]
        /\ changed <=>
              \E i, j \in 1..Len(timeline) :
                  /\ ~fetch_failed[i] /\ Len(chain[i]) > 0
                  /\ ~fetch_failed[j] /\ Len(chain[j]) > 0
                  /\ timeline[i][2] # timeline[j][2]

(* A changed timeline that also holds a failed fetch and a real absence. *)
C1_Witness ==
    /\ scan_returned
    /\ changed
    /\ \E i, j \in 1..Len(timeline) :
          /\ fetch_failed[i]
          /\ ~fetch_failed[j] /\ timeline[j][2] = None

(* C2: the change points are exactly the first entry and every entry whose *)
(* hash-or-absence differs from the entry right before it, in timeline     *)
(* order; so they start at the first height, keep the order, and no two    *)
(* consecutive change points carry the same hash-or-absence.               *)
C2_ChangePointsAreAdjacentDifferences ==
    scan_returned =>
        /\ Len(changes) = Cardinality(ChangeIndices(timeline))
        /\ \A k \in 1..Len(changes) :
              changes[k] = timeline[KthOf(ChangeIndices(timeline), k)]
        /\ Len(timeline) > 0 => changes[1][1] = timeline[1][1]
        /\ \A k \in 1..(Len(changes) - 1) :
              /\ changes[k][1] < changes[k + 1][1]
              /\ changes[k][2] # changes[k + 1][2]

(* A hash that comes back after another value is a change point again. *)
C2_Witness ==
    /\ scan_returned
    /\ Len(changes) >= 3
    /\ Len(changes) < Len(timeline)
    /\ changes[1][2] = changes[3][2]

(* C3: the sampled heights are from_block, from_block + step, ... up to    *)
(* the largest one <= to_block: floor((end - start) / stride) + 1 of them, *)
(* strictly increasing.                                                    *)
C3_HeightSequence ==
    scan_returned =>
        /\ Len(timeline) = ((to_block - from_block) \div step) + 1
        /\ timeline[1][1] = from_block
        /\ \A i \in 1..Len(timeline) :
              /\ timeline[i][1] = from_block + (i - 1) * step
              /\ timeline[i][1] <= to_block
        /\ \A i \in 1..(Len(timeline) - 1) : timeline[i][1] < timeline[i + 1][1]
        /\ timeline[Len(timeline)][1] + step > to_block

(* A stride that does not divide the range. *)
C3_Witness ==
    /\ scan_returned
    /\ step > 1
    /\ Len(timeline) >= 2
    /\ timeline[Len(timeline)][1] < to_block

(* C4: a failed fetch never aborts the scan: the height is recorded as an  *)
(* absence, the scan can always go on, and it returns one entry per height *)
(* of the sequence, in ascending order, whichever fetches failed.          *)
C4_FailuresNeverAbortTheScan ==
    /\ pc = "scan" =>
          /\ Len(results) = idx /\ rpc_calls = idx
          /\ ENABLED Next
    /\ scan_returned =>
          /\ Len(timeline) = ScanLen
          /\ rpc_calls = ScanLen
          /\ Len(fetch_failed) = ScanLen
          /\ \A i \in 1..Len(timeline) :
                /\ timeline[i][1] = RangeAt(from_block, step, i)
                /\ fetch_failed[i] => timeline[i][2] = None

(* The first fetch failed and the last height was still fetched. *)
C4_Witness ==
    /\ scan_returned
    /\ Len(timeline) >= 3
    /\ fetch_failed[1]
    /\ fetch_failed[2]
    /\ timeline[Len(timeline)][2] # None

(* C5: an entry whose fetch failed differs, in the timeline and in the     *)
(* report, from the entry of a successful fetch that found no code.        *)
C5_DegradedEntryIsFlagged ==
    \A i \in 1..Len(results) :
        fetch_failed[i] =>
            LET genuine == ScanAppend(<< >>, results[i][1],
                                      codehash_at(EmptyCode, FALSE))[1]
            IN /\ results[i] # genuine
               /\ ReportLine(results[i]) # ReportLine(genuine)

(* C6: with from_block > to_block or step < 1 the run fails with the range *)
(* error before any fetch: no get_code call, no scan, no timeline.         *)
C6_InvalidRangeFailsBeforeAnyFetch ==
    (from_block > to_block \/ step < 1) =>
        /\ rpc_calls = 0
        /\ pc # "scan"
        /\ ~scan_returned
        /\ pc = "exited" =>
              /\ exit_code = 1
              /\ rpc_ok => error = "InvalidRange"

(* A run refused for its range. *)
C6_Witness ==
    /\ pc = "exited"
    /\ from_block > to_block
    /\ error = "InvalidRange"
    /\ address_ok /\ connected

C8_CancelStopsTheScan ==
    cancel_at >= 0 =>
        /\ rpc_calls = cancel_at
        /\ scan_returned => Len(timeline) = cancel_at

(* C9: on a chain with one code version at every sampled height, a single  *)
(* failed fetch in the middle leaves the verdict what the scan without     *)
(* failures gives: changed = false.                                        *)
C9_SingleFailureKeepsVerdict ==
    ( /\ scan_returned
      /\ Len(timeline) >= 3
      /\ \A i \in 1..Len(chain) : chain[i] = chain[1] /\ Len(chain[i]) > 0
      /\ \E m \in 2..(Len(timeline) - 1) :
            \A i \in 1..Len(timeline) : fetch_failed[i] <=> (i = m) )
    => /\ changed = Changed(UndegradedTimeline)
       /\ changed = FALSE

(* A uniform timeline with exactly one failed fetch in the middle. *)
C9_Witness ==
    /\ scan_returned
    /\ Len(timeline) = 3
    /\ chain = <<<<1>>, <<1>>, <<1>>>>
    /\ fetch_failed = <<FALSE, TRUE, FALSE>>

(* C10, as stated: fewer progress lines than sampled heights, and never    *)
(* two progress lines less than the interval apart.                        *)
C10_NeverTwoWithinInterval ==
    /\ [](idx >= 1 => progress_lines < idx)
    /\ [][(progress_lines >= 1 /\ progress_lines' = progress_lines + 1)
              => now - last_progress >= ProgressInterval]_vars

(* C10, amended: fewer progress lines than sampled heights, and two        *)
(* progress lines are less than the interval apart only when the later one *)
(* is at a sample index that is a multiple of show_progress_every.         *)
C10_BoundedCadence ==
    /\ [](idx >= 1 => progress_lines < idx)
    /\ [][(/\ progress_lines >= 1
           /\ progress_lines' = progress_lines + 1
           /\ now - last_progress < ProgressInterval)
              => idx' % show_progress_every = 0]_vars

(* The second progress line comes at index show_progress_every, one tenth  *)
(* of a second at most after the first (which no run prints before         *)
(* ProgressInterval has passed).                                           *)
C10_Witness ==
    /\ idx = show_progress_every
    /\ progress_lines = 2
    /\ last_progress = ProgressInterval + 1
    /\ now = last_progress

====
